---- MODULE Spec2Model ----
(***************************************************************************)
(* Model of test_infrastructure.py: the verification orchestrator main()   *)
(* and its four leaf checkers invoke_lambda, check_cloudwatch_logs,        *)
(* wait_for_s3_objects and check_sqs_messages; and of lambda_function.py:  *)
(* lambda_handler, the function under test.                                *)
(*                                                                         *)
(* A run enters main(), one of the checkers, or lambda_handler (entry).    *)
(* The AWS services are the environment: every client call chooses its     *)
(* response, or a botocore ClientError, nondeterministically.  The clock   *)
(* `now` is advanced by sleeps (which may overrun by up to `jitter`) and   *)
(* by the latency of the S3 listing calls.                                 *)
(*                                                                         *)
(* The variables of a checker (its locals and the log of the client calls  *)
(* of the current activation) are reset when main() consumes its return    *)
(* value; under a direct entry they stay as the checker left them.         *)
(***************************************************************************)
EXTENDS Integers, Sequences, FiniteSets, TLC

\* ---------------------------------------------------------------- bounds
MaxInvocations == 4      \* largest num_invocations explored for invoke_lambda
MaxJitter == 1           \* largest sleep overrun / listing latency per call
MaxMessages == 2         \* largest batch a receive_message response carries
MaxRecords == 2          \* largest event['Records'] list handed to lambda_handler

\* ------------------------------------------------------ program constants
DefaultInvocations == 5  \* invoke_lambda(function_name, num_invocations=5)
DefaultWaitTime == 180   \* --wait-time default
InvokeDelay == 1         \* time.sleep(1) between invocations
SettleDelay == 10        \* time.sleep(10) in main
PollInterval == 10       \* time.sleep(10) in wait_for_s3_objects
StreamLimit == 5         \* describe_log_streams(limit=5)
EventLimit == 10         \* get_log_events(limit=10)
MaxNumberOfMessages == 10
WaitTimeSeconds == 10
ResetVisibility == 0     \* VisibilityTimeout=0
StatusOk == 200          \* 'statusCode': 200

\* ------------------------------------------------------ explored inputs
Entries == {"main", "invoke_lambda", "check_cloudwatch_logs",
            "wait_for_s3_objects", "check_sqs_messages", "lambda_handler"}
\* args.wait_time is any int (type=int): negative, zero, not a multiple of
\* the poll interval, and the default.
WaitTimes == {0 - PollInterval, 0, 25, DefaultWaitTime}
MainWaitTimes == {0, 25, DefaultWaitTime}
\* times at which the first object lands in the bucket
ArrivalTimes == {0, 15, 170, 175}
\* acknowledgment status codes of lambda_client.invoke
StatusCodes == {202, 500}
\* number of events held by a log stream (12 exceeds the fetch limit)
EventCounts == {0, 3, 12}
StreamNames == {"stream-a", "stream-b"}
\* message bodies as token sequences: a well-formed JSON object and a
\* truncated one
Bodies == {<<"{", "}">>, <<"{">>}

VARIABLES
    entry,            \* the function this run executes
    pc,               \* position in the program
    now,              \* time.time()
    jitter,           \* largest overrun of a sleep / latency of a listing
    \* main
    success,          \* main's local `success`
    stage,            \* what each checker returned to main
    exitStatus,       \* <<>> until main returns, then <<status>>
    trace,            \* the stages main has started, in order
    \* invoke_lambda
    num_invocations,
    i,                \* loop index
    invocations,      \* lambda_client.invoke calls of this activation
    retTrigger,
    \* check_cloudwatch_logs
    streamEvents,     \* the log group: events held by each stream
    streams,          \* response['logStreams']
    logCalls,         \* logs_client calls of this activation
    retLogs,
    \* wait_for_s3_objects
    wait_time,
    objectArrives,    \* whether an object ever lands in the bucket
    arrival,          \* when it does
    enteredAt,        \* clock at entry of the watcher
    end_time,
    polls,            \* list_objects_v2 calls issued
    lastPollAt,       \* clock at the last list_objects_v2 request
    sleeps,           \* time.sleep(10) calls completed
    delayed,          \* some listing took time or some sleep overran
    s3Fault,          \* a listing raised ClientError
    retObjects,       \* returned list
    returnedAt,       \* clock at return
    \* check_sqs_messages
    messages,         \* response.get('Messages', [])
    k,                \* index of the visibility loop
    sqsCalls,         \* sqs_client calls of this activation
    retSqs,
    \* lambda_handler
    event,            \* the event handed to lambda_handler
    r,                \* index of the record loop
    lambdaLog,        \* lines lambda_handler logged about records
    raisedLambda,     \* the exception lambda_handler re-raised
    retLambda         \* <<>> until it returns, then <<acknowledgment>>

mainVars == <<success, stage, exitStatus, trace>>
trigVars == <<i, invocations, retTrigger>>
logVars  == <<streamEvents, streams, logCalls, retLogs>>
s3Vars   == <<enteredAt, end_time, polls, lastPollAt, sleeps, delayed, s3Fault,
              retObjects, returnedAt>>
sqsVars  == <<messages, k, sqsCalls, retSqs>>
lamVars  == <<event, r, lambdaLog, raisedLambda, retLambda>>
inputs   == <<entry, jitter, num_invocations, wait_time, objectArrives, arrival>>
vars == <<pc, now, inputs, mainVars, trigVars, logVars, s3Vars, sqsVars, lamVars>>

\* ------------------------------------------------------------ helpers
Range(s) == {s[x] : x \in DOMAIN s}

Min(a, b) == IF a < b THEN a ELSE b

RECURSIVE DecDigits(_)
\* str(n) for n >= 0, as the sequence of its decimal digits
DecDigits(n) == IF n < 10 THEN <<n>> ELSE Append(DecDigits(n \div 10), n % 10)

TagConst(n) == <<"message-">> \o DecDigits(0)

\* f"message-{i}"
Tag(n) == <<"message-">> \o DecDigits(n)

\* response['StatusCode'] >= 200 and response['StatusCode'] < 300
Accepted(status) == status >= 200 /\ status < 300

\* the initial (and reset) values of each checker's variables
TrigInit ==
    /\ i = 0
    /\ invocations = <<>>
    /\ retTrigger = "none"

TrigReset ==
    /\ i' = 0
    /\ invocations' = <<>>
    /\ retTrigger' = "none"

\* ------------------------------------------------------- invoke_lambda
\* range(num_invocations) is exhausted: return True
InvokeReturnTrue ==
    /\ pc = "invoke_loop"
    /\ ~(i < num_invocations)
    /\ retTrigger' = "True"
    /\ pc' = "invoke_return"
    /\ UNCHANGED <<lamVars, now, inputs, mainVars, i, invocations, logVars, s3Vars, sqsVars>>

\* lambda_client.invoke answers with a status code; either branch of the
\* status test only logs, and the loop goes on to the sleep
InvokeAcknowledged ==
    /\ pc = "invoke_loop"
    /\ i < num_invocations
    /\ \E status \in StatusCodes :
         invocations' = Append(invocations,
             [tag |-> Tag(i), timestamp |-> now, outcome |-> "ack",
              status |-> status,
              logged |-> IF Accepted(status) THEN "info" ELSE "error"])
    /\ pc' = "invoke_sleep"
    /\ UNCHANGED <<lamVars, now, inputs, mainVars, i, retTrigger, logVars, s3Vars, sqsVars>>

InvokeClientErrorContinue ==
    /\ pc = "invoke_loop"
    /\ i < num_invocations
    /\ invocations' = Append(invocations,
           [tag |-> Tag(i), timestamp |-> now, outcome |-> "ClientError",
            status |-> 0, logged |-> "error"])
    /\ pc' = "invoke_sleep"
    /\ UNCHANGED <<lamVars, now, inputs, mainVars, i, retTrigger, logVars, s3Vars, sqsVars>>

\* lambda_client.invoke raises ClientError: return False
InvokeClientError ==
    /\ pc = "invoke_loop"
    /\ i < num_invocations
    /\ invocations' = Append(invocations,
           [tag |-> Tag(i), timestamp |-> now, outcome |-> "ClientError",
            status |-> 0, logged |-> "error"])
    /\ retTrigger' = "False"
    /\ pc' = "invoke_return"
    /\ UNCHANGED <<lamVars, now, inputs, mainVars, i, logVars, s3Vars, sqsVars>>

InvokeNoSleep ==
    /\ pc = "invoke_sleep"
    /\ i' = i + 1
    /\ pc' = "invoke_loop"
    /\ UNCHANGED <<lamVars, now, inputs, mainVars, invocations, retTrigger, logVars, s3Vars, sqsVars>>

\* time.sleep(1), then the next iteration
InvokeSleep ==
    /\ pc = "invoke_sleep"
    /\ \E d \in 0..jitter : now' = now + InvokeDelay + d
    /\ i' = i + 1
    /\ pc' = "invoke_loop"
    /\ UNCHANGED <<lamVars, inputs, mainVars, invocations, retTrigger, logVars, s3Vars, sqsVars>>

\* ------------------------------------------------- check_cloudwatch_logs
LogsInit ==
    /\ streamEvents = [s \in StreamNames |-> 0]
    /\ streams = <<>>
    /\ logCalls = <<>>
    /\ retLogs = "none"

LogsReset ==
    /\ streamEvents' = [s \in StreamNames |-> 0]
    /\ streams' = <<>>
    /\ logCalls' = <<>>
    /\ retLogs' = "none"

\* the listings describe_log_streams can answer with: the streams of the
\* group, most recently active first, at most `limit` of them
StreamListings ==
    {l \in UNION {[1..n -> StreamNames] : n \in 0..Cardinality(StreamNames)} :
        /\ Len(l) <= StreamLimit
        /\ \A x, y \in DOMAIN l : x # y => l[x] # l[y]}

LastStream(listing) == listing[Len(listing)]

\* response['logStreams'][0]['logStreamName']
MostRecentStream(listing) == listing[1]

\* the window get_log_events answers with: at most `limit` events
EventWindow(held, limit) == Min(held, limit)

DescribeCall == [op |-> "describe_log_streams", orderBy |-> "LastEventTime",
                 descending |-> TRUE, limit |-> StreamLimit, stream |-> "",
                 outcome |-> "ok"]

LogsNoStreamsRetry ==
    /\ pc = "logs_describe"
    /\ \E ev \in [StreamNames -> EventCounts] : streamEvents' = ev
    /\ streams' = <<>>
    /\ logCalls' = Append(logCalls, DescribeCall)
    /\ UNCHANGED <<lamVars, pc, now, inputs, mainVars, trigVars, retLogs, s3Vars, sqsVars>>

\* describe_log_streams answers with no stream: return False
LogsNoStreams ==
    /\ pc = "logs_describe"
    /\ \E ev \in [StreamNames -> EventCounts] : streamEvents' = ev
    /\ streams' = <<>>
    /\ logCalls' = Append(logCalls, DescribeCall)
    /\ retLogs' = "False"
    /\ pc' = "logs_return"
    /\ UNCHANGED <<lamVars, now, inputs, mainVars, trigVars, s3Vars, sqsVars>>

\* describe_log_streams answers with at least one stream
LogsStreams ==
    /\ pc = "logs_describe"
    /\ \E ev \in [StreamNames -> EventCounts] : streamEvents' = ev
    /\ \E l \in StreamListings : Len(l) > 0 /\ streams' = l
    /\ logCalls' = Append(logCalls, DescribeCall)
    /\ pc' = "logs_events"
    /\ UNCHANGED <<lamVars, now, inputs, mainVars, trigVars, retLogs, s3Vars, sqsVars>>

\* describe_log_streams raises ClientError: return False
LogsDescribeClientError ==
    /\ pc = "logs_describe"
    /\ logCalls' = Append(logCalls, [DescribeCall EXCEPT !.outcome = "ClientError"])
    /\ retLogs' = "False"
    /\ pc' = "logs_return"
    /\ UNCHANGED <<lamVars, now, inputs, mainVars, trigVars, streamEvents, streams, s3Vars, sqsVars>>

\* get_log_events on the most recent stream: True iff the window has events
LogsGetEvents ==
    /\ pc = "logs_events"
    /\ LET stream_name == MostRecentStream(streams)
           window == EventWindow(streamEvents[stream_name], EventLimit)
       IN /\ logCalls' = Append(logCalls,
                 [op |-> "get_log_events", orderBy |-> "", descending |-> FALSE,
                  limit |-> EventLimit, stream |-> stream_name, outcome |-> "ok"])
          /\ retLogs' = IF window = 0 THEN "False" ELSE "True"
    /\ pc' = "logs_return"
    /\ UNCHANGED <<lamVars, now, inputs, mainVars, trigVars, streamEvents, streams, s3Vars, sqsVars>>

\* get_log_events raises ClientError: return False
LogsGetEventsClientError ==
    /\ pc = "logs_events"
    /\ logCalls' = Append(logCalls,
           [op |-> "get_log_events", orderBy |-> "", descending |-> FALSE,
            limit |-> EventLimit, stream |-> MostRecentStream(streams),
            outcome |-> "ClientError"])
    /\ retLogs' = "False"
    /\ pc' = "logs_return"
    /\ UNCHANGED <<lamVars, now, inputs, mainVars, trigVars, streamEvents, streams, s3Vars, sqsVars>>

\* --------------------------------------------------- wait_for_s3_objects
S3Init ==
    /\ enteredAt = 0
    /\ end_time = 0
    /\ polls = 0
    /\ lastPollAt = 0
    /\ sleeps = 0
    /\ delayed = FALSE
    /\ s3Fault = FALSE
    /\ retObjects = <<>>
    /\ returnedAt = 0

S3Reset ==
    /\ enteredAt' = 0
    /\ end_time' = 0
    /\ polls' = 0
    /\ lastPollAt' = 0
    /\ sleeps' = 0
    /\ delayed' = FALSE
    /\ s3Fault' = FALSE
    /\ retObjects' = <<>>
    /\ returnedAt' = 0

\* the bucket's listing at time t: empty until the object lands, and never
\* shrinking afterwards
Contents(t) == IF objectArrives /\ t >= arrival THEN <<"object-1">> ELSE <<>>

\* response.get('KeyCount', 0)
KeyCount(t) == Len(Contents(t))

EarlyDeadline(t, deadline) == t + PollInterval < deadline

\* a deadline recomputed from the current clock at every test
SlidingDeadline(t, deadline) == t < t + wait_time

\* a deadline that still admits a poll at the deadline itself
AtOrBeforeDeadline(t, deadline) == t <= deadline

\* while time.time() < end_time
BeforeDeadline(t, deadline) == t < deadline

\* end_time = time.time() + wait_time
S3Enter ==
    /\ pc = "s3_enter"
    /\ enteredAt' = now
    /\ end_time' = now + wait_time
    /\ pc' = "s3_loop"
    /\ UNCHANGED <<lamVars, now, inputs, mainVars, trigVars, logVars, polls, lastPollAt, sleeps,
                   delayed, s3Fault, retObjects, returnedAt, sqsVars>>

\* the loop condition fails: timed out, return []
S3Timeout ==
    /\ pc = "s3_loop"
    /\ ~BeforeDeadline(now, end_time)
    /\ retObjects' = <<>>
    /\ returnedAt' = now
    /\ pc' = "s3_return"
    /\ UNCHANGED <<lamVars, now, inputs, mainVars, trigVars, logVars, enteredAt, end_time, polls,
                   lastPollAt, sleeps, delayed, s3Fault, sqsVars>>

\* list_objects_v2 answers with KeyCount > 0: return response['Contents']
S3ListFound ==
    /\ pc = "s3_loop"
    /\ BeforeDeadline(now, end_time)
    /\ KeyCount(now) > 0
    /\ \E l \in 0..jitter :
         /\ now' = now + l
         /\ returnedAt' = now + l
         /\ delayed' = (delayed \/ l > 0)
    /\ polls' = polls + 1
    /\ lastPollAt' = now
    /\ retObjects' = Contents(now)
    /\ pc' = "s3_return"
    /\ UNCHANGED <<lamVars, inputs, mainVars, trigVars, logVars, enteredAt, end_time, sleeps,
                   s3Fault, sqsVars>>

\* list_objects_v2 answers with no key: go on to the sleep
S3ListEmpty ==
    /\ pc = "s3_loop"
    /\ BeforeDeadline(now, end_time)
    /\ KeyCount(now) = 0
    /\ \E l \in 0..jitter :
         /\ now' = now + l
         /\ delayed' = (delayed \/ l > 0)
    /\ polls' = polls + 1
    /\ lastPollAt' = now
    /\ pc' = "s3_sleep"
    /\ UNCHANGED <<lamVars, inputs, mainVars, trigVars, logVars, enteredAt, end_time, sleeps,
                   s3Fault, retObjects, returnedAt, sqsVars>>

S3ListClientErrorRetry ==
    /\ pc = "s3_loop"
    /\ BeforeDeadline(now, end_time)
    /\ polls' = polls + 1
    /\ lastPollAt' = now
    /\ s3Fault' = TRUE
    /\ pc' = "s3_sleep"
    /\ UNCHANGED <<lamVars, now, inputs, mainVars, trigVars, logVars, enteredAt, end_time, sleeps,
                   delayed, retObjects, returnedAt, sqsVars>>

\* list_objects_v2 raises ClientError: return []
S3ListClientError ==
    /\ pc = "s3_loop"
    /\ BeforeDeadline(now, end_time)
    /\ polls' = polls + 1
    /\ lastPollAt' = now
    /\ s3Fault' = TRUE
    /\ retObjects' = <<>>
    /\ returnedAt' = now
    /\ pc' = "s3_return"
    /\ UNCHANGED <<lamVars, now, inputs, mainVars, trigVars, logVars, enteredAt, end_time, sleeps,
                   delayed, sqsVars>>

S3SleepTwice ==
    /\ pc = "s3_sleep"
    /\ now' = now + PollInterval + PollInterval
    /\ sleeps' = sleeps + 1
    /\ pc' = "s3_loop"
    /\ UNCHANGED <<lamVars, inputs, mainVars, trigVars, logVars, enteredAt, end_time, polls,
                   lastPollAt, delayed, s3Fault, retObjects, returnedAt, sqsVars>>

\* time.sleep(10), then the loop condition again
S3Sleep ==
    /\ pc = "s3_sleep"
    /\ \E d \in 0..jitter :
         /\ now' = now + PollInterval + d
         /\ delayed' = (delayed \/ d > 0)
    /\ sleeps' = sleeps + 1
    /\ pc' = "s3_loop"
    /\ UNCHANGED <<lamVars, inputs, mainVars, trigVars, logVars, enteredAt, end_time, polls,
                   lastPollAt, s3Fault, retObjects, returnedAt, sqsVars>>

\* ---------------------------------------------------- check_sqs_messages
SqsInit ==
    /\ messages = <<>>
    /\ k = 1
    /\ sqsCalls = <<>>
    /\ retSqs = "none"

RECURSIVE Balanced(_, _)
\* whether the token sequence closes every brace it opens
Balanced(body, depth) ==
    IF body = <<>> THEN depth = 0
    ELSE IF Head(body) = "{" THEN Balanced(Tail(body), depth + 1)
    ELSE depth > 0 /\ Balanced(Tail(body), depth - 1)

\* json.loads(body): the parsed value, or ValueError (JSONDecodeError)
JsonLoads(body) ==
    IF body # <<>> /\ Balanced(body, 0)
    THEN [raised |-> "none", value |-> body]
    ELSE [raised |-> "ValueError", value |-> <<>>]

\* the batches receive_message can answer with: up to MaxNumberOfMessages
\* messages, each with its own receipt handle
Batches ==
    UNION {{[x \in 1..n |-> [ReceiptHandle |-> x, Body |-> b[x]]] : b \in [1..n -> Bodies]} :
              n \in 0..Min(MaxMessages, MaxNumberOfMessages)}

ReceiveCall == [op |-> "receive_message", MaxNumberOfMessages |-> MaxNumberOfMessages,
                WaitTimeSeconds |-> WaitTimeSeconds, ReceiptHandle |-> 0,
                VisibilityTimeout |-> 0, outcome |-> "ok"]

ChangeCall(handle) ==
    [op |-> "change_message_visibility", MaxNumberOfMessages |-> 0,
     WaitTimeSeconds |-> 0, ReceiptHandle |-> handle,
     VisibilityTimeout |-> ResetVisibility, outcome |-> "ok"]

SqsReceiveNoneTrue ==
    /\ pc = "sqs_receive"
    /\ sqsCalls' = Append(sqsCalls, ReceiveCall)
    /\ messages' = <<>>
    /\ retSqs' = "True"
    /\ pc' = "sqs_return"
    /\ UNCHANGED <<lamVars, now, inputs, mainVars, trigVars, logVars, s3Vars, k>>

\* receive_message answers with no message: return False
SqsReceiveNone ==
    /\ pc = "sqs_receive"
    /\ sqsCalls' = Append(sqsCalls, ReceiveCall)
    /\ messages' = <<>>
    /\ retSqs' = "False"
    /\ pc' = "sqs_return"
    /\ UNCHANGED <<lamVars, now, inputs, mainVars, trigVars, logVars, s3Vars, k>>

\* receive_message answers with a batch
SqsReceiveMessages ==
    /\ pc = "sqs_receive"
    /\ sqsCalls' = Append(sqsCalls, ReceiveCall)
    /\ \E batch \in Batches : Len(batch) > 0 /\ messages' = batch
    /\ pc' = "sqs_parse"
    /\ UNCHANGED <<lamVars, now, inputs, mainVars, trigVars, logVars, s3Vars, k, retSqs>>

\* receive_message raises ClientError: return False
SqsReceiveClientError ==
    /\ pc = "sqs_receive"
    /\ sqsCalls' = Append(sqsCalls, [ReceiveCall EXCEPT !.outcome = "ClientError"])
    /\ retSqs' = "False"
    /\ pc' = "sqs_return"
    /\ UNCHANGED <<lamVars, now, inputs, mainVars, trigVars, logVars, s3Vars, messages, k>>

\* json.loads(messages[0]['Body']) succeeds: on to the visibility loop
SqsParsed ==
    /\ pc = "sqs_parse"
    /\ JsonLoads(messages[1].Body).raised = "none"
    /\ k' = 1
    /\ pc' = "sqs_reset"
    /\ UNCHANGED <<lamVars, now, inputs, mainVars, trigVars, logVars, s3Vars, messages, sqsCalls,
                   retSqs>>

\* json.loads raises ValueError, which `except ClientError` does not catch:
\* it leaves check_sqs_messages and main, and the process ends on the
\* uncaught exception
SqsParseRaises ==
    /\ pc = "sqs_parse"
    /\ JsonLoads(messages[1].Body).raised = "ValueError"
    /\ retSqs' = "raised"
    /\ pc' = "uncaught"
    /\ UNCHANGED <<lamVars, now, inputs, mainVars, trigVars, logVars, s3Vars, messages, k, sqsCalls>>

\* change_message_visibility(VisibilityTimeout=0) for the next message
SqsChangeVisibility ==
    /\ pc = "sqs_reset"
    /\ k <= Len(messages)
    /\ sqsCalls' = Append(sqsCalls, ChangeCall(messages[k].ReceiptHandle))
    /\ k' = k + 1
    /\ UNCHANGED <<lamVars, pc, now, inputs, mainVars, trigVars, logVars, s3Vars, messages, retSqs>>

\* change_message_visibility raises ClientError: return False
SqsChangeVisibilityClientError ==
    /\ pc = "sqs_reset"
    /\ k <= Len(messages)
    /\ sqsCalls' = Append(sqsCalls,
           [ChangeCall(messages[k].ReceiptHandle) EXCEPT !.outcome = "ClientError"])
    /\ retSqs' = "False"
    /\ pc' = "sqs_return"
    /\ UNCHANGED <<lamVars, now, inputs, mainVars, trigVars, logVars, s3Vars, messages, k>>

\* the visibility loop is exhausted: return True
SqsReturnTrue ==
    /\ pc = "sqs_reset"
    /\ k > Len(messages)
    /\ retSqs' = "True"
    /\ pc' = "sqs_return"
    /\ UNCHANGED <<lamVars, now, inputs, mainVars, trigVars, logVars, s3Vars, messages, k, sqsCalls>>

\* ------------------------------------------------------------------ main
NoStage == [trigger |-> "none", logs |-> "none", objects |-> "none", queue |-> "none"]

\* `not x` for what a checker returned
Falsy(ret) == ret = "False"

MainQueueResultHard ==
    /\ entry = "main"
    /\ pc = "sqs_return"
    /\ stage' = [stage EXCEPT !.queue = retSqs]
    /\ success' = IF Falsy(retSqs) THEN FALSE ELSE success
    /\ pc' = "main_verdict"
    /\ UNCHANGED <<lamVars, now, inputs, exitStatus, trace, trigVars, logVars, s3Vars, sqsVars>>

\* success = True; invoke_lambda(args.lambda_function)
MainStart ==
    /\ pc = "main_start"
    /\ success' = TRUE
    /\ trace' = Append(trace, "trigger")
    /\ pc' = "invoke_loop"
    /\ UNCHANGED <<lamVars, now, inputs, stage, exitStatus, trigVars, logVars, s3Vars, sqsVars>>

\* if not invoke_lambda(...): success = False
MainTriggerResult ==
    /\ entry = "main"
    /\ pc = "invoke_return"
    /\ stage' = [stage EXCEPT !.trigger = retTrigger]
    /\ success' = IF Falsy(retTrigger) THEN FALSE ELSE success
    /\ TrigReset
    /\ pc' = "main_settle"
    /\ UNCHANGED <<lamVars, now, inputs, exitStatus, trace, logVars, s3Vars, sqsVars>>

\* time.sleep(10), then check_cloudwatch_logs(args.log_group)
MainSettle ==
    /\ pc = "main_settle"
    /\ \E d \in 0..jitter : now' = now + SettleDelay + d
    /\ trace' = trace \o <<"settle", "logs">>
    /\ pc' = "logs_describe"
    /\ UNCHANGED <<lamVars, inputs, success, stage, exitStatus, trigVars, logVars, s3Vars, sqsVars>>

\* if not check_cloudwatch_logs(...): success = False; then
\* wait_for_s3_objects(args.s3_bucket, args.wait_time)
MainLogsResult ==
    /\ entry = "main"
    /\ pc = "logs_return"
    /\ stage' = [stage EXCEPT !.logs = retLogs]
    /\ success' = IF Falsy(retLogs) THEN FALSE ELSE success
    /\ LogsReset
    /\ trace' = Append(trace, "objects")
    /\ pc' = "s3_enter"
    /\ UNCHANGED <<lamVars, now, inputs, exitStatus, trigVars, s3Vars, sqsVars>>

\* if not s3_objects: success = False; then check_sqs_messages(...)
MainObjectsResult ==
    /\ entry = "main"
    /\ pc = "s3_return"
    /\ stage' = [stage EXCEPT !.objects = IF retObjects = <<>> THEN "False" ELSE "True"]
    /\ success' = IF retObjects = <<>> THEN FALSE ELSE success
    /\ S3Reset
    /\ trace' = Append(trace, "queue")
    /\ pc' = "sqs_receive"
    /\ UNCHANGED <<lamVars, now, inputs, exitStatus, trigVars, logVars, sqsVars>>

\* if not check_sqs_messages(...): only a warning, success is left alone
MainQueueResult ==
    /\ entry = "main"
    /\ pc = "sqs_return"
    /\ stage' = [stage EXCEPT !.queue = retSqs]
    /\ pc' = "main_verdict"
    /\ UNCHANGED <<lamVars, now, inputs, success, exitStatus, trace, trigVars, logVars, s3Vars, sqsVars>>

\* return 0 if success else 1; sys.exit(main())
MainVerdict ==
    /\ pc = "main_verdict"
    /\ exitStatus' = IF success THEN <<0>> ELSE <<1>>
    /\ trace' = Append(trace, "verdict")
    /\ pc' = "exited"
    /\ UNCHANGED <<lamVars, now, inputs, success, stage, trigVars, logVars, s3Vars, sqsVars>>

\* -------------------------------------------------------- lambda_handler
\* the records explored: the storage shape complete, without its object,
\* without its bucket; the queue shape with and without its body; a record
\* of neither shape; a record with both marks
S3Complete == [bucket |-> [name |-> "bucket-1"], object |-> [key |-> "key-1"]]

RecordShapes ==
    {[s3 |-> S3Complete],
     [s3 |-> [bucket |-> [name |-> "bucket-1"]]],
     [s3 |-> [object |-> [key |-> "key-1"]]],
     [sqs |-> "queue-1", body |-> "hello"],
     [sqs |-> "queue-1"],
     [eventSource |-> "aws:sns"],
     [s3 |-> S3Complete, sqs |-> "queue-1"]}

\* the payload invoke_lambda submits: no 'Records'
InvokePayload == [test |-> Tag(0), timestamp |-> 0]

Events ==
    {InvokePayload} \cup
    {[Records |-> rs] : rs \in UNION {[1..n -> RecordShapes] : n \in 0..MaxRecords}}

RECURSIVE HasPath(_, _)
\* whether d[path[1]][path[2]]... can be evaluated without KeyError
HasPath(d, path) ==
    IF Len(path) = 0 THEN TRUE
    ELSE IF Head(path) \in DOMAIN d THEN HasPath(d[Head(path)], Tail(path))
    ELSE FALSE

\* json.dumps of a string: the string in double quotes
JsonDumps(str) == <<"\"", str, "\"">>

\* the fixed acknowledgment
Acknowledgment ==
    [statusCode |-> StatusOk, body |-> JsonDumps("Successfully processed event")]

LamInit ==
    /\ r = 1
    /\ lambdaLog = <<>>
    /\ raisedLambda = "none"
    /\ retLambda = <<>>

\* 'Records' not in event: return the acknowledgment
LambdaNoRecords ==
    /\ pc = "lambda_start"
    /\ "Records" \notin DOMAIN event
    /\ retLambda' = <<Acknowledgment>>
    /\ pc' = "lambda_return"
    /\ UNCHANGED <<now, inputs, mainVars, trigVars, logVars, s3Vars, sqsVars,
                   event, r, lambdaLog, raisedLambda>>

\* 'Records' in event: start the loop over event['Records']
LambdaRecords ==
    /\ pc = "lambda_start"
    /\ "Records" \in DOMAIN event
    /\ r' = 1
    /\ pc' = "lambda_loop"
    /\ UNCHANGED <<now, inputs, mainVars, trigVars, logVars, s3Vars, sqsVars,
                   event, lambdaLog, raisedLambda, retLambda>>

\* 's3' in record, and bucket name and object key are there: log them
LambdaRecordS3 ==
    /\ pc = "lambda_loop"
    /\ r <= Len(event.Records)
    /\ LET record == event.Records[r]
       IN /\ "s3" \in DOMAIN record
          /\ HasPath(record, <<"s3", "bucket", "name">>)
          /\ HasPath(record, <<"s3", "object", "key">>)
          /\ lambdaLog' = Append(lambdaLog,
                 [level |-> "info", about |-> "s3",
                  detail |-> <<record.s3.bucket.name, record.s3.object.key>>])
    /\ r' = r + 1
    /\ UNCHANGED <<pc, now, inputs, mainVars, trigVars, logVars, s3Vars, sqsVars,
                   event, raisedLambda, retLambda>>

\* elif 'sqs' in record, and the body is there: log it
LambdaRecordSqs ==
    /\ pc = "lambda_loop"
    /\ r <= Len(event.Records)
    /\ LET record == event.Records[r]
       IN /\ "s3" \notin DOMAIN record
          /\ "sqs" \in DOMAIN record
          /\ HasPath(record, <<"body">>)
          /\ lambdaLog' = Append(lambdaLog,
                 [level |-> "info", about |-> "sqs", detail |-> <<record.body>>])
    /\ r' = r + 1
    /\ UNCHANGED <<pc, now, inputs, mainVars, trigVars, logVars, s3Vars, sqsVars,
                   event, raisedLambda, retLambda>>

\* neither 's3' nor 'sqs' in record: nothing to do
LambdaRecordOther ==
    /\ pc = "lambda_loop"
    /\ r <= Len(event.Records)
    /\ "s3" \notin DOMAIN event.Records[r]
    /\ "sqs" \notin DOMAIN event.Records[r]
    /\ r' = r + 1
    /\ UNCHANGED <<pc, now, inputs, mainVars, trigVars, logVars, s3Vars, sqsVars,
                   event, lambdaLog, raisedLambda, retLambda>>

\* whether processing the record raises KeyError
RecordRaises(record) ==
    IF "s3" \in DOMAIN record
    THEN ~(HasPath(record, <<"s3", "bucket", "name">>)
           /\ HasPath(record, <<"s3", "object", "key">>))
    ELSE "sqs" \in DOMAIN record /\ ~HasPath(record, <<"body">>)

LambdaRecordSwallows ==
    /\ pc = "lambda_loop"
    /\ r <= Len(event.Records)
    /\ RecordRaises(event.Records[r])
    /\ lambdaLog' = Append(lambdaLog,
           [level |-> "error", about |-> "KeyError", detail |-> <<>>])
    /\ r' = r + 1
    /\ UNCHANGED <<pc, now, inputs, mainVars, trigVars, logVars, s3Vars, sqsVars,
                   event, raisedLambda, retLambda>>

\* a lookup raises KeyError: except Exception logs it and re-raises
LambdaRecordRaises ==
    /\ pc = "lambda_loop"
    /\ r <= Len(event.Records)
    /\ RecordRaises(event.Records[r])
    /\ lambdaLog' = Append(lambdaLog,
           [level |-> "error", about |-> "KeyError", detail |-> <<>>])
    /\ raisedLambda' = "KeyError"
    /\ pc' = "lambda_raised"
    /\ UNCHANGED <<now, inputs, mainVars, trigVars, logVars, s3Vars, sqsVars,
                   event, r, retLambda>>

\* the loop is exhausted: return the acknowledgment
LambdaReturn ==
    /\ pc = "lambda_loop"
    /\ r > Len(event.Records)
    /\ retLambda' = <<Acknowledgment>>
    /\ pc' = "lambda_return"
    /\ UNCHANGED <<now, inputs, mainVars, trigVars, logVars, s3Vars, sqsVars,
                   event, r, lambdaLog, raisedLambda>>

\* ----------------------------------------------------------- the system
FirstPc(e) ==
    CASE e = "main" -> "main_start"
      [] e = "invoke_lambda" -> "invoke_loop"
      [] e = "check_cloudwatch_logs" -> "logs_describe"
      [] e = "wait_for_s3_objects" -> "s3_enter"
      [] e = "check_sqs_messages" -> "sqs_receive"
      [] e = "lambda_handler" -> "lambda_start"

Init ==
    /\ entry \in Entries
    /\ pc = FirstPc(entry)
    /\ now = 0
    /\ jitter \in IF entry \in {"main", "invoke_lambda", "wait_for_s3_objects"}
                  THEN 0..MaxJitter ELSE {0}
    /\ num_invocations \in
         CASE entry = "invoke_lambda" -> 0..MaxInvocations
           [] entry = "main" -> {DefaultInvocations}
           [] OTHER -> {0}
    /\ wait_time \in
         CASE entry = "wait_for_s3_objects" -> WaitTimes
           [] entry = "main" -> MainWaitTimes
           [] OTHER -> {0}
    /\ objectArrives \in IF entry \in {"main", "wait_for_s3_objects"} THEN BOOLEAN ELSE {FALSE}
    /\ arrival \in IF objectArrives THEN ArrivalTimes ELSE {0}
    /\ success = TRUE
    /\ stage = NoStage
    /\ exitStatus = <<>>
    /\ trace = <<>>
    /\ TrigInit
    /\ LogsInit
    /\ S3Init
    /\ SqsInit
    /\ event \in IF entry = "lambda_handler" THEN Events ELSE {InvokePayload}
    /\ LamInit

Next ==
    \/ InvokeReturnTrue
    \/ InvokeAcknowledged
    \/ InvokeClientError
    \/ InvokeSleep
    \/ LogsNoStreams
    \/ LogsStreams
    \/ LogsDescribeClientError
    \/ LogsGetEvents
    \/ LogsGetEventsClientError
    \/ S3Enter
    \/ S3Timeout
    \/ S3ListFound
    \/ S3ListEmpty
    \/ S3ListClientError
    \/ S3Sleep
    \/ SqsReceiveNone
    \/ SqsReceiveMessages
    \/ SqsReceiveClientError
    \/ SqsParsed
    \/ SqsParseRaises
    \/ SqsChangeVisibility
    \/ SqsChangeVisibilityClientError
    \/ SqsReturnTrue
    \/ MainStart
    \/ MainTriggerResult
    \/ MainSettle
    \/ MainLogsResult
    \/ MainObjectsResult
    \/ MainQueueResult
    \/ MainVerdict
    \/ LambdaNoRecords
    \/ LambdaRecords
    \/ LambdaRecordS3
    \/ LambdaRecordSqs
    \/ LambdaRecordOther
    \/ LambdaRecordRaises
    \/ LambdaReturn

Spec == Init /\ [][Next]_vars

\* wait_for_s3_objects called on its own.  The function is straight-line
\* single-threaded code: as long as its calls and sleeps return, its next
\* step is taken, which is weak fairness of its steps.
WatchInit == Init /\ entry = "wait_for_s3_objects"

WatchNext ==
    \/ S3Enter
    \/ S3Timeout
    \/ S3ListFound
    \/ S3ListEmpty
    \/ S3ListClientError
    \/ S3Sleep

WatchSpec == WatchInit /\ [][WatchNext]_vars /\ WF_vars(WatchNext)

\* =================================================================== claims
HardFailure ==
    stage.trigger = "False" \/ stage.logs = "False" \/ stage.objects = "False"

\* the calls of the current check_sqs_messages activation that reset the
\* visibility of the message with receipt handle h and were acknowledged
ResetsOf(h) ==
    {c \in DOMAIN sqsCalls :
        /\ sqsCalls[c].op = "change_message_visibility"
        /\ sqsCalls[c].ReceiptHandle = h
        /\ sqsCalls[c].VisibilityTimeout = 0
        /\ sqsCalls[c].outcome = "ok"}

SqsEnded == retSqs # "none"

SqsFaulted == \E c \in DOMAIN sqsCalls : sqsCalls[c].outcome = "ClientError"

\* C1: whenever main() has returned, its exit status is 1 exactly when the
\* trigger, the log check or the object watch reported failure, and 0
\* otherwise; what check_sqs_messages returned plays no part.
C1_ExitStatus ==
    pc = "exited" =>
        /\ exitStatus = IF HardFailure THEN <<1>> ELSE <<0>>
        /\ (stage.queue = "False" /\ ~HardFailure) => exitStatus = <<0>>

\* a run where the receive answered with no message, the other three stages
\* succeeded, and main exited with 0
C1_Witness ==
    /\ pc = "exited"
    /\ stage = [trigger |-> "True", logs |-> "True", objects |-> "True", queue |-> "False"]
    /\ Len(sqsCalls) = 1 /\ sqsCalls[1].outcome = "ok" /\ messages = <<>>
    /\ exitStatus = <<0>>

\* C2: once check_sqs_messages has ended, however it ended, every message
\* the receive returned has had its visibility reset to 0 exactly once, and
\* no message was deleted.
C2_EveryMessageResetOnce ==
    SqsEnded =>
        /\ \A m \in DOMAIN messages : Cardinality(ResetsOf(messages[m].ReceiptHandle)) = 1
        /\ \A c \in DOMAIN sqsCalls : sqsCalls[c].op # "delete_message"

\* C3: invoke_lambda returns True only if every submission was acknowledged
\* with a status code in 200..299.
C3_SuccessOnlyIfAllAccepted ==
    retTrigger = "True" =>
        \A x \in DOMAIN invocations :
            /\ invocations[x].outcome = "ack"
            /\ invocations[x].status >= 200 /\ invocations[x].status < 300

\* C4 (as stated): with no transport fault, an object that lands during the
\* watch at a time strictly before the deadline is always returned, no later
\* than one poll interval after it landed.  Stated for the runs most
\* favourable to it, where no listing takes time and no sleep overruns.
C4_Original ==
    (/\ pc = "s3_return" /\ ~s3Fault /\ ~delayed
     /\ objectArrives /\ arrival >= enteredAt /\ arrival < end_time)
    => /\ retObjects # <<>>
       /\ returnedAt <= arrival + PollInterval

\* C4 (amended): with no transport fault, for an object that lands during
\* the watch at time t: a poll issued at or after t returns the non-empty
\* listing; when no call takes time and no sleep overruns, the watcher
\* returns less than one poll interval after t if t is before the deadline,
\* and what it returns is the listing if t is at least one poll interval
\* before the deadline (t <= deadline - 10); with wait_time = 180 and the
\* object at 170 it returns the object at an elapsed time in 170..189.
C4_Amended ==
    (/\ pc = "s3_return" /\ ~s3Fault
     /\ objectArrives /\ arrival >= enteredAt)
    => /\ (polls > 0 /\ lastPollAt >= arrival) => retObjects = <<"object-1">>
       /\ (~delayed /\ arrival < end_time) => returnedAt < arrival + PollInterval
       /\ (~delayed /\ arrival + PollInterval <= end_time) => retObjects = <<"object-1">>
       /\ (~delayed /\ wait_time = 180 /\ arrival - enteredAt = 170) =>
             /\ retObjects = <<"object-1">>
             /\ returnedAt - enteredAt >= 170
             /\ returnedAt - enteredAt < 190

\* the scenario: wait 180, empty for 170 units, then one object, returned
\* at elapsed time 170
C4_Witness ==
    /\ pc = "s3_return" /\ ~s3Fault /\ ~delayed
    /\ wait_time = 180 /\ objectArrives /\ arrival - enteredAt = 170
    /\ polls = 18
    /\ retObjects = <<"object-1">>
    /\ returnedAt - enteredAt = 170

\* C5: with no transport fault, when every poll found the listing empty the
\* watcher returns the empty list, at or after the deadline fixed at entry
\* (entry time + wait_time), whatever the latencies.
C5_TimeoutNotEarly ==
    (/\ pc = "s3_return" /\ ~s3Fault
     /\ (polls = 0 \/ KeyCount(lastPollAt) = 0))
    => /\ retObjects = <<>>
       /\ end_time = enteredAt + wait_time
       /\ returnedAt >= end_time

\* a timeout after several empty polls whose sleeps overran
C5_Witness ==
    /\ pc = "s3_return" /\ ~s3Fault /\ delayed
    /\ polls > 2 /\ KeyCount(lastPollAt) = 0
    /\ retObjects = <<>>
    /\ returnedAt > end_time

\* C6: no fault inside a checker ends the run before the verdict: no run
\* ends on an uncaught exception, every checker that ended returned a
\* value, and main exits with 0 or 1.
C6_NoUncaughtFault ==
    /\ pc # "uncaught"
    /\ retSqs # "raised"
    /\ pc = "exited" => exitStatus \in {<<0>>, <<1>>}

\* C7: check_cloudwatch_logs returns True exactly when the stream listing is
\* non-empty, the window (limit 10) fetched from the first stream of the
\* listing is non-empty, and neither call raised; otherwise it returns False.
C7_LogsVerdict ==
    pc = "logs_return" =>
        /\ retLogs \in {"True", "False"}
        /\ retLogs = "True" <=>
             /\ streams # <<>>
             /\ Min(streamEvents[streams[1]], 10) > 0
             /\ \A c \in DOMAIN logCalls : logCalls[c].outcome = "ok"
        /\ \A c \in DOMAIN logCalls : logCalls[c].op = "get_log_events" =>
             logCalls[c].stream = streams[1] /\ logCalls[c].limit = 10

\* True from a listing of two streams whose second stream holds no event
C7_Witness ==
    /\ pc = "logs_return"
    /\ retLogs = "True"
    /\ Len(streams) = 2
    /\ streamEvents[streams[1]] = 12
    /\ streamEvents[streams[2]] = 0

\* C8: when no submission raises, invoke_lambda ends having issued exactly
\* num_invocations submissions, with pairwise different tags, consecutive
\* ones at least the inter-submission delay (1) apart, and returns True;
\* it never issues more than num_invocations.
C8_ExactlyNDistinctSpaced ==
    /\ Len(invocations) <= num_invocations
    /\ (/\ pc = "invoke_return"
        /\ \A x \in DOMAIN invocations : invocations[x].outcome = "ack")
       => /\ Len(invocations) = num_invocations
          /\ retTrigger = "True"
          /\ \A x, y \in DOMAIN invocations :
                x # y => invocations[x].tag # invocations[y].tag
          /\ \A x \in DOMAIN invocations :
                x > 1 => invocations[x].timestamp - invocations[x - 1].timestamp >= 1

\* a complete run of several submissions, all acknowledged
C8_Witness ==
    /\ pc = "invoke_return"
    /\ num_invocations >= 3
    /\ Len(invocations) = num_invocations
    /\ \A x \in DOMAIN invocations : invocations[x].outcome = "ack"
    /\ retTrigger = "True"

\* C9: a listing that raised ends the watch at once: the watcher has
\* returned the empty list at the time of that poll, no poll and no sleep
\* follows, and main counts the objects stage as failed.
C9_FaultAbortsWatch ==
    /\ [](s3Fault => /\ pc = "s3_return"
                     /\ retObjects = <<>>
                     /\ returnedAt = lastPollAt)
    /\ [][(s3Fault /\ s3Fault') => (polls' = polls /\ sleeps' = sleeps)]_vars
    /\ [][(s3Fault /\ entry = "main") => (~success' /\ stage'.objects = "False")]_vars

\* a fault on a later poll, with more than a poll interval left
C9_Witness ==
    /\ s3Fault
    /\ pc = "s3_return"
    /\ polls > 1
    /\ returnedAt + PollInterval < end_time

\* C10: check_sqs_messages issues one receive_message (MaxNumberOfMessages
\* 10, WaitTimeSeconds 10) and never a second; it returns False when the
\* receive answered with no message or when a queue call raised
\* ClientError, and True when the receive answered with messages and the
\* visibility reset of every one of them was acknowledged.
C10_SingleReceiveVerdict ==
    LET receives == {c \in DOMAIN sqsCalls : sqsCalls[c].op = "receive_message"}
    IN /\ Cardinality(receives) <= 1
       /\ \A c \in receives :
             sqsCalls[c].MaxNumberOfMessages = 10 /\ sqsCalls[c].WaitTimeSeconds = 10
       /\ SqsEnded =>
             /\ Cardinality(receives) = 1
             /\ (messages = <<>> \/ SqsFaulted) => retSqs = "False"
             /\ (/\ messages # <<>>
                 /\ \A m \in DOMAIN messages :
                       ResetsOf(messages[m].ReceiptHandle) # {})
                => retSqs = "True"
             /\ retSqs = "True" => (messages # <<>> /\ ~SqsFaulted)

\* True after a batch of two messages, both reset
C10_Witness ==
    /\ pc = "sqs_return"
    /\ retSqs = "True"
    /\ Len(messages) = 2
    /\ Len(sqsCalls) = 3

\* C11: a submission that raises is the last one of the call: invoke_lambda
\* has returned False, the faulting submission is the i-th of exactly i
\* submissions, every index was submitted once and in order (nothing is
\* re-issued), and nothing is submitted afterwards.
C11_FaultAbortsSubmissions ==
    /\ [](\A x \in DOMAIN invocations :
            /\ invocations[x].tag = <<"message-">> \o DecDigits(x - 1)
            /\ invocations[x].outcome = "ClientError" =>
                  /\ x = Len(invocations)
                  /\ x = i + 1
                  /\ pc = "invoke_return"
                  /\ retTrigger = "False")
    /\ [][(retTrigger = "False" /\ retTrigger' = "False") =>
              invocations' = invocations]_vars

\* the third of more than three submissions raised
C11_Witness ==
    /\ pc = "invoke_return"
    /\ retTrigger = "False"
    /\ num_invocations > 3
    /\ Len(invocations) = 3
    /\ invocations[3].outcome = "ClientError"
    /\ invocations[2].outcome = "ack"

\* the order in which main is to run its stages
StageOrder == <<"trigger", "settle", "logs", "objects", "queue", "verdict">>

\* C12: main runs its stages in the fixed order and never skips one: the
\* stages started so far are always an initial part of trigger, settle
\* delay, log check, object watch, queue check, verdict, and a run of main
\* that has ended has run every one of them exactly once, whatever the
\* earlier stages returned.
C12_FixedStageOrder ==
    /\ Len(trace) <= Len(StageOrder)
    /\ \A x \in DOMAIN trace : trace[x] = StageOrder[x]
    /\ (entry = "main" /\ pc \in {"exited", "uncaught"}) => trace = StageOrder

\* C13: wait_for_s3_objects always returns, and the number of listings it
\* issues is bounded by wait_time and the poll interval: the n-th listing
\* is issued only if (n - 1) * 10 < wait_time, so at most
\* ceil(wait_time / 10) listings, and none for wait_time <= 0.
C13_WatchTerminates ==
    /\ [](polls > 0 => (polls - 1) * PollInterval < wait_time)
    /\ [][(polls' = polls + 1) => (sleeps = polls)]_vars
    /\ <>(pc = "s3_return")

\* a watch on a bucket that stays empty, ended by the deadline after the
\* largest number of listings wait_time 180 allows
C13_Witness ==
    /\ pc = "s3_return"
    /\ ~objectArrives /\ ~s3Fault
    /\ wait_time = 180
    /\ polls = 18
    /\ retObjects = <<>>

\* C14: the deadline is entry time + wait_time and does not change while
\* the watcher runs; every listing is issued at a clock reading strictly
\* below it; so with wait_time <= 0 the watcher issues no listing and
\* returns the empty list, even when the bucket already holds objects.
C14_DeadlineFixed ==
    /\ [](pc \in {"s3_loop", "s3_sleep", "s3_return"} =>
            end_time = enteredAt + wait_time)
    /\ [][(pc \in {"s3_loop", "s3_sleep"}) => (end_time' = end_time)]_vars
    /\ [][(polls' = polls + 1) =>
            (now < end_time /\ lastPollAt' = now /\ end_time' = end_time)]_vars
    /\ []((pc = "s3_return" /\ wait_time <= 0) =>
            (polls = 0 /\ sleeps = 0 /\ retObjects = <<>>))

\* wait_time 0 on a bucket that already holds an object: nothing listed,
\* the empty list returned
C14_Witness ==
    /\ pc = "s3_return"
    /\ wait_time = 0
    /\ objectArrives /\ arrival <= enteredAt
    /\ Contents(now) # <<>>
    /\ polls = 0
    /\ retObjects = <<>>

\* C15: check_cloudwatch_logs is single-shot: it issues at most one
\* describe_log_streams and at most one get_log_events; the get_log_events
\* is the second call, after a describe_log_streams that answered with at
\* least one stream, and names the first stream of that listing; nothing is
\* called again after an empty answer or a fault.
C15_SingleShot ==
    LET describes == {c \in DOMAIN logCalls : logCalls[c].op = "describe_log_streams"}
        gets == {c \in DOMAIN logCalls : logCalls[c].op = "get_log_events"}
    IN /\ Cardinality(describes) <= 1
       /\ Cardinality(gets) <= 1
       /\ Len(logCalls) = Cardinality(describes) + Cardinality(gets)
       /\ \A c \in gets :
             /\ c = 2
             /\ logCalls[1].op = "describe_log_streams"
             /\ logCalls[1].outcome = "ok"
             /\ Len(streams) >= 1
             /\ logCalls[c].stream = streams[1]
       /\ pc = "logs_return" =>
             /\ Cardinality(describes) = 1
             /\ (streams = <<>> \/ logCalls[1].outcome = "ClientError") => gets = {}

\* a get_log_events that raised after a listing of two streams: two calls
\* in all, False returned
C15_Witness ==
    /\ pc = "logs_return"
    /\ Len(streams) = 2
    /\ Len(logCalls) = 2
    /\ logCalls[2].op = "get_log_events"
    /\ logCalls[2].outcome = "ClientError"
    /\ retLogs = "False"

\* whether a record is one the handler can process: marked s3 with bucket
\* name and object key, else marked sqs with body, else of neither shape
Processable(record) ==
    IF "s3" \in DOMAIN record
    THEN /\ "bucket" \in DOMAIN record.s3 /\ "name" \in DOMAIN record.s3.bucket
         /\ "object" \in DOMAIN record.s3 /\ "key" \in DOMAIN record.s3.object
    ELSE "sqs" \in DOMAIN record => "body" \in DOMAIN record

AllProcessable ==
    "Records" \in DOMAIN event => \A x \in DOMAIN event.Records : Processable(event.Records[x])

\* C16: once lambda_handler has ended, it has returned the 200
\* acknowledgment exactly when the event has no records or every record is
\* processable; otherwise it has re-raised the exception and returned
\* nothing.
C16_AckIffNoException ==
    /\ retLambda # <<>> => pc = "lambda_return"
    /\ pc \in {"lambda_return", "lambda_raised"} =>
          /\ (retLambda = <<[statusCode |-> 200,
                             body |-> <<"\"", "Successfully processed event", "\"">>]>>)
                <=> AllProcessable
          /\ (raisedLambda = "none") <=> AllProcessable
          /\ (pc = "lambda_return") <=> (raisedLambda = "none")
          /\ (pc = "lambda_raised") => retLambda = <<>>

\* a queue record without body after a storage record that was logged: the
\* exception is re-raised and nothing is returned
C16_Witness ==
    /\ pc = "lambda_raised"
    /\ raisedLambda = "KeyError"
    /\ r = 2
    /\ "sqs" \in DOMAIN event.Records[2]
    /\ Len(lambdaLog) = 2 /\ lambdaLog[1].about = "s3"
    /\ retLambda = <<>>

====
